---------------------------- MODULE Spec2Model ----------------------------
(***************************************************************************)
(* State-machine model of the attestation transformer                      *)
(* (attestation-transformer/src/main.rs, schemas/follow.rs) and of the     *)
(* linear combiner (linear-combiner/src/main.rs).                          *)
(*                                                                         *)
(* Both services keep their state in an embedded key-value store.  A store *)
(* is modelled as a function from byte-string keys to byte-string values   *)
(* whose DOMAIN is the set of keys present; keys and values are sequences  *)
(* of bytes (0..255), computed with the same big-endian encoding the code  *)
(* uses.  Wire-level addresses are hex strings, modelled as sequences of   *)
(* one-character strings.                                                  *)
(***************************************************************************)
EXTENDS Integers, Sequences, FiniteSets, TLC

VARIABLES
    tr_db,            \* transformer store: "checkpoint" and id -> encoded Term
    lc_main,          \* combiner main store: "checkpoint", address -> index, pair -> weight
    lc_updates,       \* combiner updates store: pair -> weight
    overflow_checks,  \* TRUE: u32 `+` panics on overflow (debug profile); FALSE: it wraps
    tr_last,          \* the last transformer RPC: request, store before it, response
    lc_last,          \* the last combiner RPC: request, stores before it, response
    calls,            \* number of RPCs served so far
    core_last,        \* the last sync_core_computer RPC: matrix at the call, response
    cp_last,          \* the last checkpoint operation made directly on a store
    tr_lock,          \* the task that has the transformer store open (0: nobody)
    lc_lock,          \* the task that has the combiner stores open (0: nobody)
    si_task,          \* sync_indexer tasks, by task id
    st_task           \* sync_transformer tasks, by task id

\* The tasks' variables, untouched by an RPC taken as one step.
task_vars == <<tr_lock, lc_lock, si_task, st_task>>

vars == <<tr_db, lc_main, lc_updates, overflow_checks, tr_last, lc_last, calls,
          core_last, cp_last, tr_lock, lc_lock, si_task, st_task>>

---------------------------------------------------------------------------
(* Bounds of the model.                                                    *)
MaxTerms == 2
MaxEvents == 2
MaxCalls == 2
MaxLog == 3

(* u32 values.  TLC's integers are 32-bit signed, so a u32 is kept as two   *)
(* 16-bit limbs <<hi, lo>> standing for hi * 2^16 + lo; the full range      *)
(* 0 .. 2^32-1 and its overflow are then representable.                     *)
U32(n) == << n \div 65536, n % 65536 >>

MaxU32 == << 65535, 65535 >>

u32_lt(a, b) == a[1] < b[1] \/ (a[1] = b[1] /\ a[2] < b[2])

u32_le(a, b) == a = b \/ u32_lt(a, b)

\* a + b in unbounded arithmetic: the wrapped u32 sum and whether it overflowed
u32_sum(a, b) ==
    LET lo == a[2] + b[2]
        hi == a[1] + b[1] + (lo \div 65536)
    IN [overflow |-> hi >= 65536, value |-> << hi % 65536, lo % 65536 >>]

SeqsUpTo(S, n) == UNION {[1..k -> S] : k \in 0..n}

---------------------------------------------------------------------------
(* Byte encodings.                                                         *)

\* The little-endian encoding, least significant byte first.
to_le_bytes(n) ==
    << n[2] % 256, n[2] \div 256, n[1] % 256, n[1] \div 256 >>

\* u32::to_be_bytes
to_be_bytes(n) ==
    << n[1] \div 256, n[1] % 256, n[2] \div 256, n[2] % 256 >>

\* u32::from_be_bytes on the 4 bytes copied with copy_from_slice
from_be_bytes(b) ==
    << b[1] * 256 + b[2], b[3] * 256 + b[4] >>

HexDigits ==
    << "0", "1", "2", "3", "4", "5", "6", "7", "8", "9", "a", "b", "c", "d", "e", "f" >>

IsHexDigit(c) == \E i \in 1..16 : HexDigits[i] = c

HexVal(c) == (CHOOSE i \in 1..16 : HexDigits[i] = c) - 1

\* hex::decode: Err on an odd length or a character that is no hex digit
hex_decode(s) ==
    IF Len(s) % 2 = 1 \/ \E i \in 1..Len(s) : ~IsHexDigit(s[i])
    THEN [ok |-> FALSE, bytes |-> << >>]
    ELSE [ok |-> TRUE,
          bytes |-> [i \in 1..(Len(s) \div 2) |->
                        16 * HexVal(s[2 * i - 1]) + HexVal(s[2 * i])]]

\* hex::encode: two lower-case digits per byte
hex_encode(bytes) ==
    [i \in 1..(2 * Len(bytes)) |->
        IF i % 2 = 1 THEN HexDigits[(bytes[(i + 1) \div 2] \div 16) + 1]
                     ELSE HexDigits[(bytes[i \div 2] % 16) + 1]]

---------------------------------------------------------------------------
(* The key-value store (rocksdb::DB get / put).                            *)

EmptyDb == << >>

DbHas(db, k) == k \in DOMAIN db

DbPut(db, k, v) == [x \in (DOMAIN db) \cup {k} |-> IF x = k THEN v ELSE db[x]]

\* b"checkpoint"
CheckpointKey == << 99, 104, 101, 99, 107, 112, 111, 105, 110, 116 >>

\* A store as the constructor of its service leaves it on a fresh path.
FreshStore == DbPut(EmptyDb, CheckpointKey, to_be_bytes(U32(0)))

---------------------------------------------------------------------------
(* Linear combiner.                                                        *)

\* LinearCombinerService::read_checkpoint: an absent key reads as 0
read_checkpoint(db) ==
    IF DbHas(db, CheckpointKey) THEN from_be_bytes(db[CheckpointKey]) ELSE U32(0)

\* LinearCombinerService::write_checkpoint
write_checkpoint(db, count) == DbPut(db, CheckpointKey, to_be_bytes(count))

\* LinearCombinerService::new on the main store: the checkpoint is set to 0
\* when the store has none.
new(main_db) ==
    IF DbHas(main_db, CheckpointKey) THEN main_db
    ELSE DbPut(main_db, CheckpointKey, to_be_bytes(U32(0)))

\* u32 `a + b`: panics under overflow checks, wraps otherwise
add_u32(a, b) ==
    LET s == u32_sum(a, b) IN
    [panic |-> s.overflow /\ overflow_checks, value |-> s.value]

\* get_index that advances the offset on every lookup, found or not.
get_index_key_counts_hits(db, key, offset) ==
    IF ~key.ok
    THEN [panic |-> TRUE, x |-> << >>, db |-> db, offset |-> offset, hit |-> FALSE]
    ELSE IF DbHas(db, key.bytes)
    THEN [panic |-> add_u32(offset, U32(1)).panic, x |-> db[key.bytes], db |-> db,
          offset |-> add_u32(offset, U32(1)).value, hit |-> TRUE]
    ELSE [panic |-> add_u32(offset, U32(1)).panic, x |-> to_be_bytes(offset),
          db |-> DbPut(db, key.bytes, to_be_bytes(offset)),
          offset |-> add_u32(offset, U32(1)).value, hit |-> FALSE]

\* get_index after hex::decode(source).unwrap(): key is the decoding result.
\* `hit` tells whether the key was found; the put precedes `*offset += 1`.
get_index_key(db, key, offset) ==
    IF ~key.ok
    THEN [panic |-> TRUE, x |-> << >>, db |-> db, offset |-> offset, hit |-> FALSE]
    ELSE IF DbHas(db, key.bytes)
    THEN [panic |-> FALSE, x |-> db[key.bytes], db |-> db, offset |-> offset,
          hit |-> TRUE]
    ELSE [panic |-> add_u32(offset, U32(1)).panic, x |-> to_be_bytes(offset),
          db |-> DbPut(db, key.bytes, to_be_bytes(offset)),
          offset |-> add_u32(offset, U32(1)).value, hit |-> FALSE]

\* get_index without the lookup: every call assigns the next offset.
get_index_always_assigns(db, source, offset) ==
    get_index_key(IF hex_decode(source).ok
                  THEN [k \in (DOMAIN db) \ {hex_decode(source).bytes} |-> db[k]]
                  ELSE db,
                  hex_decode(source), offset)

\* LinearCombinerService::get_index
get_index(db, source, offset) == get_index_key(db, hex_decode(source), offset)

\* LinearCombinerService::get_value: an absent key reads as 0
get_value(main_db, key) ==
    IF DbHas(main_db, key) THEN from_be_bytes(main_db[key]) ELSE U32(0)

\* update_value that stores the weight instead of value + weight.
update_value_overwrites(main_db, updates_db, key, weight) ==
    [panic |-> FALSE,
     main |-> DbPut(main_db, key, to_be_bytes(weight)),
     updates |-> DbPut(updates_db, key, to_be_bytes(weight))]

\* update_value that records the edge's own weight in the updates store.
update_value_delta_is_weight(main_db, updates_db, key, weight) ==
    LET sum == add_u32(get_value(main_db, key), weight) IN
    IF sum.panic
    THEN [panic |-> TRUE, main |-> main_db, updates |-> updates_db]
    ELSE [panic |-> FALSE,
          main |-> DbPut(main_db, key, to_be_bytes(sum.value)),
          updates |-> DbPut(updates_db, key, to_be_bytes(weight))]

\* LinearCombinerService::update_value
update_value(main_db, updates_db, key, weight) ==
    LET sum == add_u32(get_value(main_db, key), weight) IN
    IF sum.panic
    THEN [panic |-> TRUE, main |-> main_db, updates |-> updates_db]
    ELSE [panic |-> FALSE,
          main |-> DbPut(main_db, key, to_be_bytes(sum.value)),
          updates |-> DbPut(updates_db, key, to_be_bytes(sum.value))]

\* One record of the get_index log of a call: the lookup of `source` in db
\* with the counter at `offset`, and what get_index answered (g).
LogEntry(db, source, offset, g) ==
    [source |-> source, hit |-> g.hit,
     prev |-> IF hex_decode(source).ok /\ DbHas(db, hex_decode(source).bytes)
              THEN db[hex_decode(source).bytes] ELSE << >>,
     x |-> g.x, offset_before |-> offset, offset_after |-> g.offset,
     db_changed |-> g.db # db]

\* The `for term in terms` loop of sync_transformer, from the i-th Term on,
\* in the order of its statements: index of from (gx), index of to (gy),
\* update_value (uv).  st = [panic, main, updates, offset, log]; a panic
\* stops the loop and keeps every put made before it.
RECURSIVE process_terms(_, _, _)
RECURSIVE process_from(_, _, _, _)
RECURSIVE process_to(_, _, _, _, _, _)
RECURSIVE process_update(_, _, _, _, _, _)

process_update(st, terms, i, gy, logy, uv) ==
    IF uv.panic
    THEN [st EXCEPT !.panic = TRUE, !.main = gy.db, !.log = logy]
    ELSE process_terms([panic |-> FALSE, main |-> uv.main, updates |-> uv.updates,
                        offset |-> gy.offset, log |-> logy], terms, i + 1)

process_to(st, terms, i, gx, logx, gy) ==
    IF gy.panic
    THEN [st EXCEPT !.panic = TRUE, !.main = gy.db, !.log = logx]
    ELSE process_update(st, terms, i, gy,
             Append(logx, LogEntry(gx.db, terms[i].to, gx.offset, gy)),
             update_value(gy.db, st.updates, gx.x \o gy.x, terms[i].weight))

process_from(st, terms, i, gx) ==
    IF gx.panic
    THEN [st EXCEPT !.panic = TRUE, !.main = gx.db]
    ELSE process_to(st, terms, i, gx,
             Append(st.log, LogEntry(st.main, terms[i].from, st.offset, gx)),
             get_index(gx.db, terms[i].to, gx.offset))

process_terms(st, terms, i) ==
    IF i > Len(terms) THEN st
    ELSE process_from(st, terms, i, get_index(st.main, terms[i].from, st.offset))

\* The end of sync_transformer: st is the state the loop over the drained
\* Terms leaves.  A stream error returns before the loop; a panic skips
\* write_checkpoint.
sync_transformer_end(main_db, updates_db, end, st) ==
    IF end = "error"
    THEN [status |-> "err", main |-> main_db, updates |-> updates_db, log |-> << >>]
    ELSE IF st.panic
    THEN [status |-> "panic", main |-> st.main, updates |-> st.updates, log |-> st.log]
    ELSE [status |-> "ok", main |-> write_checkpoint(st.main, st.offset),
          updates |-> st.updates, log |-> st.log]

\* LinearCombiner::sync_transformer on a request stream that delivers `terms`
\* and then ends normally (end = "eos") or with a stream error (end = "error").
sync_transformer(main_db, updates_db, terms, end) ==
    sync_transformer_end(main_db, updates_db, end,
        process_terms([panic |-> FALSE, main |-> main_db, updates |-> updates_db,
                       offset |-> read_checkpoint(main_db), log |-> << >>], terms, 1))

\* The request/response record of a combiner call.
LcCall(main_db, updates_db, terms, end, r) ==
    [terms |-> terms, end |-> end, pre_main |-> main_db, pre_updates |-> updates_db,
     status |-> r.status, log |-> r.log]

\* The number of messages sync_core_computer sends.
num_buffers == 4

\* LinearCombiner::sync_core_computer: the request is dropped and the stores
\* are not opened; the response stream carries num_buffers LtObjects, each
\* {x: 0, y: 0, value: 0}.  The channel holds num_buffers messages, so no
\* send waits.
sync_core_computer ==
    [i \in 1..num_buffers |-> [x |-> U32(0), y |-> U32(0), value |-> U32(0)]]

---------------------------------------------------------------------------
(* Attestation transformer.                                                *)

MAX_TERM_BATCH_SIZE == 1000

FOLLOW_WEIGHT == 50

FOLLOW_DOMAIN == 1

\* u32 -> Nat, for the small values that index sequences
ToNat(v) == v[1] * 65536 + v[2]

\* A Follow attestation as carried by IndexerEvent.schema_value.  json_ok
\* tells whether serde_json::from_str accepts the payload.  The ECDSA
\* computation is abstracted to its outcome: sig_recovers tells whether the
\* recovery id and (r, s) recover a public key, signer is the 20-byte address
\* of that key, sig_verifies is the result of verify_ecdsa against it.

\* FollowSchema::validate: Err when nothing is recovered, else (pk, valid)
validate(att) ==
    IF ~att.sig_recovers
    THEN [ok |-> FALSE, pk |-> << >>, valid |-> FALSE]
    ELSE [ok |-> TRUE, pk |-> att.signer, valid |-> att.sig_verifies]

\* utils::address_from_ecdsa_key: the address of the key, as a hex string
address_from_ecdsa_key(pk) == hex_encode(pk)

\* into_term that gives every Term the weight 1.
into_term_unit_weight(att) ==
    IF ~validate(att).ok THEN [status |-> "err", term |-> << >>]
    ELSE IF ~validate(att).valid THEN [status |-> "panic", term |-> << >>]
    ELSE [status |-> "ok",
          term |-> [from |-> address_from_ecdsa_key(validate(att).pk),
                    to |-> hex_encode(att.did_key),
                    weight |-> U32(1),
                    domain |-> U32(FOLLOW_DOMAIN),
                    positive |-> TRUE]]

\* FollowSchema::into_term; panic is assert!(valid)
into_term(att) ==
    IF ~validate(att).ok THEN [status |-> "err", term |-> << >>]
    ELSE IF ~validate(att).valid THEN [status |-> "panic", term |-> << >>]
    ELSE [status |-> "ok",
          term |-> [from |-> address_from_ecdsa_key(validate(att).pk),
                    to |-> hex_encode(att.did_key),
                    weight |-> U32(FOLLOW_WEIGHT),
                    domain |-> U32(FOLLOW_DOMAIN),
                    positive |-> TRUE]]

\* TransformerService::parse_event on a Follow event
parse_event(event) ==
    IF ~event.schema_value.json_ok
    THEN [status |-> "err", id |-> event.id, term |-> << >>]
    ELSE [status |-> into_term(event.schema_value).status, id |-> event.id,
          term |-> into_term(event.schema_value).term]

\* Term::into_bytes / Term::from_bytes: the stored encoding of a Term
term_into_bytes(term) ==
    << term.from, term.to, to_be_bytes(term.weight), to_be_bytes(term.domain),
       IF term.positive THEN 1 ELSE 0 >>

term_from_bytes(b) ==
    [from |-> b[1], to |-> b[2], weight |-> from_be_bytes(b[3]),
     domain |-> from_be_bytes(b[4]), positive |-> b[5] = 1]

\* impl From<Term> for TermObject
term_object(term) == [from |-> term.from, to |-> term.to, weight |-> term.weight]

\* TransformerService::read_checkpoint: an absent key reads as 0
tr_read_checkpoint(db) ==
    IF DbHas(db, CheckpointKey) THEN from_be_bytes(db[CheckpointKey]) ELSE U32(0)

\* TransformerService::write_checkpoint
tr_write_checkpoint(db, count) == DbPut(db, CheckpointKey, to_be_bytes(count))

\* TransformerService::new on the store: the checkpoint is set to 0 when the
\* store has none.
tr_new(db) ==
    IF DbHas(db, CheckpointKey) THEN db
    ELSE DbPut(db, CheckpointKey, to_be_bytes(U32(0)))

\* TransformerService::write_terms: one WriteBatch with a put per (id, Term)
RECURSIVE write_terms(_, _)
write_terms(db, terms) ==
    IF terms = << >> THEN db
    ELSE write_terms(DbPut(db, to_be_bytes(Head(terms)[1]),
                           term_into_bytes(Head(terms)[2])), Tail(terms))

\* The `for i in batch.start..batch.size` loop of read_terms, from id i on.
RECURSIVE read_terms_from(_, _, _, _)
read_terms_from(db, i, size, terms) ==
    IF ~u32_lt(i, size) THEN [status |-> "ok", terms |-> terms]
    ELSE IF ~DbHas(db, to_be_bytes(i))
    THEN [status |-> "NotFoundError", terms |-> << >>]
    ELSE read_terms_from(db, u32_sum(i, U32(1)).value, size,
             Append(terms, term_object(term_from_bytes(db[to_be_bytes(i)]))))

\* TransformerService::read_terms
read_terms(db, start, size) == read_terms_from(db, start, size, << >>)

\* The response loop of sync_indexer from the i-th received event on: panic on
\* an id that is not the counter (assert!) or on an invalid signature,
\* "internal" on an event parse_event rejects (p is parse_event's result).
RECURSIVE consume_events(_, _, _, _)
RECURSIVE consume_event(_, _, _, _, _)

consume_event(events, i, count, terms, p) ==
    IF events[i].id # count
    THEN [status |-> "panic", count |-> count, terms |-> terms]
    ELSE IF p.status = "err"
    THEN [status |-> "internal", count |-> count, terms |-> terms]
    ELSE IF p.status = "panic"
    THEN [status |-> "panic", count |-> count, terms |-> terms]
    ELSE consume_events(events, i + 1, add_u32(count, U32(1)).value,
                        Append(terms, << p.id, p.term >>))

consume_events(events, i, count, terms) ==
    IF i > Len(events) THEN [status |-> "ok", count |-> count, terms |-> terms]
    ELSE consume_event(events, i, count, terms, parse_event(events[i]))

\* The end of sync_indexer with the two writes in the other order:
\* write_checkpoint first, write_terms second.
sync_indexer_end_checkpoint_first(db, fault, c) ==
    IF fault = "open" THEN [status |-> "internal", db |-> db]
    ELSE IF c.status # "ok" THEN [status |-> c.status, db |-> db]
    ELSE IF fault = "write_checkpoint" THEN [status |-> "internal", db |-> db]
    ELSE IF fault = "write_terms"
    THEN [status |-> "internal", db |-> tr_write_checkpoint(db, c.count)]
    ELSE [status |-> "ok", db |-> tr_write_checkpoint(write_terms(db, c.terms), c.count)]

\* The end of sync_indexer: c is what the response loop leaves, fault the
\* storage call that fails during this invocation, if any.
sync_indexer_end(db, fault, c) ==
    IF fault = "open" THEN [status |-> "internal", db |-> db]
    ELSE IF c.status # "ok" THEN [status |-> c.status, db |-> db]
    ELSE IF fault = "write_terms" THEN [status |-> "internal", db |-> db]
    ELSE IF fault = "write_checkpoint"
    THEN [status |-> "internal", db |-> write_terms(db, c.terms)]
    ELSE [status |-> "ok", db |-> tr_write_checkpoint(write_terms(db, c.terms), c.count)]

\* sync_indexer whose counter starts at the persisted checkpoint.
sync_indexer_from_checkpoint(db, events, end, fault) ==
    sync_indexer_end(db, fault, consume_events(events, 1, tr_read_checkpoint(db), << >>))

\* sync_indexer that commits the Terms parsed before an event it rejects.
sync_indexer_commits_prefix(db, events, end, fault) ==
    sync_indexer_end(db, fault,
        [consume_events(events, 1, U32(0), << >>) EXCEPT !.status = "ok"])

\* Transformer::sync_indexer on a response stream that delivers `events` and
\* then ends (end = "eos") or fails (end = "error"): `while let Ok(Some(..))`
\* leaves the loop on both.  The counter starts at `offset`, which is 0.
sync_indexer(db, events, end, fault) ==
    sync_indexer_end(db, fault, consume_events(events, 1, U32(0), << >>))

\* term_stream once the Terms are read: lc is the combiner's response to the
\* forwarded stream.
term_stream_forward(terms, lc) ==
    [status |-> IF lc.status = "ok" THEN "ok" ELSE "combiner_error",
     opened |-> TRUE, read_status |-> "ok", read |-> terms, called |-> TRUE, lc |-> lc]

\* term_stream from the size check on: rd is read_terms' result, used once
\* the store is open.
term_stream_read(size, fault, main_db, updates_db, rd) ==
    IF u32_lt(U32(MAX_TERM_BATCH_SIZE), size)
    THEN [status |-> "invalid_argument", opened |-> FALSE, read_status |-> "none",
          read |-> << >>, called |-> FALSE,
          lc |-> [status |-> "none", main |-> main_db, updates |-> updates_db,
                  log |-> << >>]]
    ELSE IF fault = "open"
    THEN [status |-> "internal", opened |-> FALSE, read_status |-> "none",
          read |-> << >>, called |-> FALSE,
          lc |-> [status |-> "none", main |-> main_db, updates |-> updates_db,
                  log |-> << >>]]
    ELSE IF rd.status # "ok"
    THEN [status |-> "internal", opened |-> TRUE, read_status |-> rd.status,
          read |-> << >>, called |-> FALSE,
          lc |-> [status |-> "none", main |-> main_db, updates |-> updates_db,
                  log |-> << >>]]
    ELSE term_stream_forward(rd.terms,
             sync_transformer(main_db, updates_db, rd.terms, "eos"))

\* term_stream without the size check.
term_stream_unbounded(db, start, size, fault, main_db, updates_db) ==
    term_stream_read(U32(0), fault, main_db, updates_db, read_terms(db, start, size))

\* Transformer::term_stream
term_stream(db, start, size, fault, main_db, updates_db) ==
    term_stream_read(size, fault, main_db, updates_db, read_terms(db, start, size))

\* The request/response record of a transformer call.
TrCall(op, events, end, fault, start, size, status, opened, read_status, read, called) ==
    [op |-> op, events |-> events, end |-> end, fault |-> fault, start |-> start,
     size |-> size, pre_db |-> tr_db, pre_main |-> lc_main, pre_updates |-> lc_updates,
     status |-> status, opened |-> opened, read_status |-> read_status, read |-> read,
     called |-> called]

---------------------------------------------------------------------------
(* Inputs.                                                                 *)

AddrA == << "9", "0" >>
AddrB == << "f", "8" >>
NonHex == << "z", "z" >>

Addrs == {AddrA, AddrB}

Weights == {U32(FOLLOW_WEIGHT), MaxU32}

\* TermObjects a client of the combiner sends: every edge over Addrs, and
\* edges whose `from` or `to` is no hex string.
TermObjects ==
    [from : Addrs, to : Addrs, weight : Weights]
        \cup {[from |-> NonHex, to |-> AddrA, weight |-> U32(FOLLOW_WEIGHT)],
              [from |-> AddrA, to |-> NonHex, weight |-> U32(FOLLOW_WEIGHT)]}

StreamEnds == {"eos", "error"}

KeyA == << 144 >>
KeyB == << 248 >>

\* Follow payloads: well-formed and validly signed, not JSON, with a
\* signature that recovers no key, and with one that recovers a key but does
\* not verify.
Attestations ==
    [json_ok : {TRUE}, did_key : {KeyB}, is_trustworthy : BOOLEAN,
     sig_recovers : {TRUE}, signer : {KeyA}, sig_verifies : {TRUE}]
        \cup {[json_ok |-> TRUE, did_key |-> KeyB, is_trustworthy |-> TRUE,
               sig_recovers |-> TRUE, signer |-> KeyB, sig_verifies |-> TRUE],
              [json_ok |-> FALSE, did_key |-> KeyB, is_trustworthy |-> TRUE,
               sig_recovers |-> TRUE, signer |-> KeyA, sig_verifies |-> TRUE],
              [json_ok |-> TRUE, did_key |-> KeyB, is_trustworthy |-> TRUE,
               sig_recovers |-> FALSE, signer |-> KeyA, sig_verifies |-> FALSE],
              [json_ok |-> TRUE, did_key |-> KeyB, is_trustworthy |-> TRUE,
               sig_recovers |-> TRUE, signer |-> KeyA, sig_verifies |-> FALSE]}

IndexerEvents == [id : {U32(i) : i \in 0..MaxEvents}, schema_value : Attestations]

\* How the response stream ends and which call of the invocation fails: at
\* most one of the two goes wrong in one invocation.
IndexerOutcomes ==
    {<< "eos", "none" >>, << "error", "none" >>, << "eos", "open" >>,
     << "eos", "write_terms" >>, << "eos", "write_checkpoint" >>}

\* The validly signed Follow attestation of signer A about did B.
FollowAB ==
    [json_ok |-> TRUE, did_key |-> KeyB, is_trustworthy |-> TRUE,
     sig_recovers |-> TRUE, signer |-> KeyA, sig_verifies |-> TRUE]

\* Events of an indexer log in which A follows B again and again.
FollowLogEvents == [id : {U32(i) : i \in 0..(MaxLog - 1)}, schema_value : {FollowAB}]

\* Checkpoint values: both ends of the u32 range and values around the byte
\* and limb borders.
CheckpointValues ==
    {U32(0), U32(1), U32(15), U32(255), U32(256), U32(65535), << 1, 0 >>,
     << 255, 65535 >>, << 256, 0 >>, << 65535, 65534 >>, MaxU32}

\* A payload serde_json rejects.
Malformed ==
    [json_ok |-> FALSE, did_key |-> KeyB, is_trustworthy |-> TRUE,
     sig_recovers |-> TRUE, signer |-> KeyA, sig_verifies |-> TRUE]

\* Events the indexer stream of a sync_indexer task can deliver.
TaskEvents == [id : {U32(0), U32(1)}, schema_value : {FollowAB, Malformed}]

\* Terms the request stream of a sync_transformer task can deliver.
TaskTerms ==
    {[from |-> AddrA, to |-> AddrA, weight |-> U32(FOLLOW_WEIGHT)],
     [from |-> AddrB, to |-> AddrB, weight |-> U32(FOLLOW_WEIGHT)],
     [from |-> AddrA, to |-> NonHex, weight |-> U32(FOLLOW_WEIGHT)]}

TermBatches ==
    [start : {U32(i) : i \in 0..MaxEvents},
     size : {U32(i) : i \in 0..(MaxEvents + 1)}
                \cup {U32(MAX_TERM_BATCH_SIZE), U32(MAX_TERM_BATCH_SIZE + 1)}]

---------------------------------------------------------------------------
(* Actions.                                                                *)

NoTrCall ==
    [op |-> "none", events |-> << >>, end |-> "eos", fault |-> "none",
     start |-> U32(0), size |-> U32(0), pre_db |-> EmptyDb, pre_main |-> EmptyDb,
     pre_updates |-> EmptyDb, status |-> "none", opened |-> FALSE,
     read_status |-> "none", read |-> << >>, called |-> FALSE]

NoLcCall ==
    [terms |-> << >>, end |-> "eos", pre_main |-> EmptyDb, pre_updates |-> EmptyDb,
     status |-> "none", log |-> << >>]

NoCoreCall == [called |-> FALSE, main |-> EmptyDb, stream |-> << >>]

NoCpCall == [op |-> "none", svc |-> "none", n |-> U32(0), pre |-> EmptyDb]

\* Task ids: one per RPC the runtime can have dispatched.
Tasks == 1..MaxCalls

\* A sync_indexer task that was not dispatched yet.
IdleSi ==
    [pc |-> "Idle", opened |-> FALSE, received |-> << >>, end |-> "none",
     count |-> U32(0), terms |-> << >>, written |-> FALSE, fault |-> "none",
     status |-> "none"]

\* A sync_transformer task that was not dispatched yet.
IdleSt ==
    [pc |-> "Idle", opened |-> FALSE, terms |-> << >>, end |-> "none",
     offset |-> U32(0), next |-> 1, status |-> "none"]

\* The variables no RPC has touched yet.
NothingServed ==
    /\ overflow_checks \in BOOLEAN
    /\ tr_last = NoTrCall
    /\ lc_last = NoLcCall
    /\ calls = 0
    /\ core_last = NoCoreCall
    /\ cp_last = NoCpCall
    /\ tr_lock = 0
    /\ lc_lock = 0
    /\ si_task = [p \in Tasks |-> IdleSi]
    /\ st_task = [p \in Tasks |-> IdleSt]

\* State after TransformerService::new and LinearCombinerService::new on
\* fresh stores.
Init ==
    /\ tr_db = DbPut(EmptyDb, CheckpointKey, to_be_bytes(U32(0)))
    /\ lc_main = DbPut(EmptyDb, CheckpointKey, to_be_bytes(U32(0)))
    /\ lc_updates = EmptyDb
    /\ NothingServed

\* The combiner answers r to the stream (terms, end).
SyncTransformerReply(terms, end, r) ==
    /\ lc_main' = r.main
    /\ lc_updates' = r.updates
    /\ lc_last' = LcCall(lc_main, lc_updates, terms, end, r)

\* A client streams Terms to the combiner.
SyncTransformer ==
    /\ calls < MaxCalls
    /\ \E terms \in SeqsUpTo(TermObjects, MaxTerms), end \in StreamEnds :
         SyncTransformerReply(terms, end,
                              sync_transformer(lc_main, lc_updates, terms, end))
    /\ calls' = calls + 1
    /\ UNCHANGED <<tr_db, overflow_checks, tr_last, core_last, cp_last, task_vars>>

\* The transformer answers r to sync_indexer on the stream (events, end).
SyncIndexerReply(events, end, fault, r) ==
    /\ tr_db' = r.db
    /\ tr_last' = TrCall("sync_indexer", events, end, fault, U32(0), U32(0),
                         r.status, fault # "open", "none", << >>, FALSE)

\* A client asks the transformer to pull the indexer's stream.
SyncIndexer ==
    /\ calls < MaxCalls
    /\ \E events \in SeqsUpTo(IndexerEvents, MaxEvents), o \in IndexerOutcomes :
         SyncIndexerReply(events, o[1], o[2], sync_indexer(tr_db, events, o[1], o[2]))
    /\ calls' = calls + 1
    /\ UNCHANGED <<lc_main, lc_updates, overflow_checks, lc_last, core_last, cp_last,
                   task_vars>>

\* The transformer answers r to term_stream(batch).
TermStreamReply(batch, fault, r) ==
    /\ tr_last' = TrCall("term_stream", << >>, "eos", fault, batch.start, batch.size,
                         r.status, r.opened, r.read_status, r.read, r.called)
    /\ lc_main' = r.lc.main
    /\ lc_updates' = r.lc.updates
    /\ lc_last' = IF r.called
                   THEN LcCall(lc_main, lc_updates, r.read, "eos", r.lc)
                   ELSE lc_last

\* A client asks the transformer to forward a range of Terms to the combiner.
TermStream ==
    /\ calls < MaxCalls
    /\ \E batch \in TermBatches, fault \in {"none", "open"} :
         TermStreamReply(batch, fault,
             term_stream(tr_db, batch.start, batch.size, fault, lc_main, lc_updates))
    /\ calls' = calls + 1
    /\ UNCHANGED <<tr_db, overflow_checks, core_last, cp_last, task_vars>>

\* A client asks the combiner for the matrix.
SyncCoreComputer ==
    /\ calls < MaxCalls
    /\ core_last' = [called |-> TRUE, main |-> lc_main, stream |-> sync_core_computer]
    /\ calls' = calls + 1
    /\ UNCHANGED <<tr_db, lc_main, lc_updates, overflow_checks, tr_last, lc_last,
                   cp_last, task_vars>>

\* A client asks the transformer to pull the stream of an indexer whose log
\* holds A's Follow attestations about B.
SyncFollowLog ==
    /\ calls < MaxCalls
    /\ \E events \in SeqsUpTo(FollowLogEvents, MaxLog), o \in IndexerOutcomes :
         SyncIndexerReply(events, o[1], o[2], sync_indexer(tr_db, events, o[1], o[2]))
    /\ calls' = calls + 1
    /\ UNCHANGED <<lc_main, lc_updates, overflow_checks, lc_last, core_last, cp_last,
                   task_vars>>

\* Stores that no service has opened yet.
InitCp ==
    /\ tr_db = EmptyDb
    /\ lc_main = EmptyDb
    /\ lc_updates = EmptyDb
    /\ NothingServed

\* The transformer service is constructed on its store.
TrNew ==
    /\ calls < MaxCalls
    /\ tr_db' = tr_new(tr_db)
    /\ cp_last' = [op |-> "new", svc |-> "transformer", n |-> U32(0), pre |-> tr_db]
    /\ calls' = calls + 1
    /\ UNCHANGED <<lc_main, lc_updates, overflow_checks, tr_last, lc_last, core_last,
                   task_vars>>

\* The combiner service is constructed on its stores.
LcNew ==
    /\ calls < MaxCalls
    /\ lc_main' = new(lc_main)
    /\ cp_last' = [op |-> "new", svc |-> "combiner", n |-> U32(0), pre |-> lc_main]
    /\ calls' = calls + 1
    /\ UNCHANGED <<tr_db, lc_updates, overflow_checks, tr_last, lc_last, core_last,
                   task_vars>>

\* TransformerService::write_checkpoint(n) on the store.
TrWriteCheckpoint ==
    /\ calls < MaxCalls
    /\ \E n \in CheckpointValues :
         /\ tr_db' = tr_write_checkpoint(tr_db, n)
         /\ cp_last' = [op |-> "write", svc |-> "transformer", n |-> n, pre |-> tr_db]
    /\ calls' = calls + 1
    /\ UNCHANGED <<lc_main, lc_updates, overflow_checks, tr_last, lc_last, core_last,
                   task_vars>>

\* LinearCombinerService::write_checkpoint(n) on the main store.
LcWriteCheckpoint ==
    /\ calls < MaxCalls
    /\ \E n \in CheckpointValues :
         /\ lc_main' = write_checkpoint(lc_main, n)
         /\ cp_last' = [op |-> "write", svc |-> "combiner", n |-> n, pre |-> lc_main]
    /\ calls' = calls + 1
    /\ UNCHANGED <<tr_db, lc_updates, overflow_checks, tr_last, lc_last, core_last,
                   task_vars>>

NextCp == TrNew \/ LcNew \/ TrWriteCheckpoint \/ LcWriteCheckpoint

SpecCp == InitCp /\ [][NextCp]_vars

---------------------------------------------------------------------------
(* The RPCs as tasks.  The runtime runs every handler as a task of its own, *)
(* so the steps of several calls interleave.  A handler opens its store     *)
(* with DB::open_default first; the store's LOCK file admits one open       *)
(* handle, so the open fails while another task has the store open.  The    *)
(* handle is dropped when the handler returns or unwinds.                   *)

\* The records of the RPCs taken as one step, which the tasks leave alone.
rpc_log == <<tr_last, lc_last, core_last, cp_last>>

\* Task ids are given in the order of dispatch.
NextToDispatch(tasks, idle, p) ==
    /\ tasks[p] = idle
    /\ \A q \in Tasks : q < p => tasks[q] # idle

\* sync_indexer is dispatched as task p: DB::open_default, `?` on its error.
SiOpen(p) ==
    /\ calls < MaxCalls
    /\ NextToDispatch(si_task, IdleSi, p)
    /\ calls' = calls + 1
    /\ IF tr_lock # 0
       THEN /\ si_task' = [si_task EXCEPT ![p].status = "internal"]
            /\ UNCHANGED tr_lock
       ELSE /\ si_task' = [si_task EXCEPT ![p].pc = "Streaming", ![p].opened = TRUE]
            /\ tr_lock' = p
    /\ UNCHANGED <<tr_db, lc_main, lc_updates, overflow_checks, rpc_log, lc_lock, st_task>>

\* Task p has received event e; c is what the loop body makes of it.
SiRecvReply(p, e, c) ==
    IF c.status = "ok"
    THEN /\ si_task' = [si_task EXCEPT ![p].received = Append(@, e),
                                       ![p].count = c.count, ![p].terms = c.terms]
         /\ UNCHANGED tr_lock
    ELSE /\ si_task' = [si_task EXCEPT ![p].received = Append(@, e),
                                       ![p].pc = "Idle", ![p].status = c.status]
         /\ tr_lock' = 0

\* response.message() gives task p the next event of the stream.
SiRecv(p) ==
    /\ si_task[p].pc = "Streaming"
    /\ Len(si_task[p].received) < MaxEvents
    /\ \E e \in TaskEvents :
         SiRecvReply(p, e, consume_events(<< e >>, 1, si_task[p].count, si_task[p].terms))
    /\ UNCHANGED <<tr_db, lc_main, lc_updates, overflow_checks, rpc_log, calls, lc_lock,
                   st_task>>

\* The end of the stream with write_checkpoint called right away.
SiEndWritesCheckpoint(p) ==
    /\ si_task[p].pc = "Streaming"
    /\ \E end \in StreamEnds :
         si_task' = [si_task EXCEPT ![p].pc = "Committing", ![p].end = end]
    /\ tr_db' = tr_write_checkpoint(tr_db, si_task[p].count)
    /\ UNCHANGED <<lc_main, lc_updates, overflow_checks, rpc_log, calls, tr_lock,
                   lc_lock, st_task>>

\* response.message() tells task p that the stream is over, or fails: the
\* `while let` loop is left.
SiEnd(p) ==
    /\ si_task[p].pc = "Streaming"
    /\ \E end \in StreamEnds :
         si_task' = [si_task EXCEPT ![p].pc = "Committing", ![p].end = end]
    /\ UNCHANGED <<tr_db, lc_main, lc_updates, overflow_checks, rpc_log, calls, tr_lock,
                   lc_lock, st_task>>

\* Task p calls write_terms; on its error the handler returns.
SiWriteTerms(p) ==
    /\ si_task[p].pc = "Committing"
    /\ ~si_task[p].written
    /\ \E fault \in {"none", "write_terms"} :
         IF fault = "none"
         THEN /\ tr_db' = write_terms(tr_db, si_task[p].terms)
              /\ si_task' = [si_task EXCEPT ![p].written = TRUE]
              /\ UNCHANGED tr_lock
         ELSE /\ si_task' = [si_task EXCEPT ![p].pc = "Idle", ![p].fault = fault,
                                            ![p].status = "internal"]
              /\ tr_lock' = 0
              /\ UNCHANGED tr_db
    /\ UNCHANGED <<lc_main, lc_updates, overflow_checks, rpc_log, calls, lc_lock, st_task>>

\* Task p calls write_checkpoint and returns.
SiWriteCheckpoint(p) ==
    /\ si_task[p].pc = "Committing"
    /\ si_task[p].written
    /\ \E fault \in {"none", "write_checkpoint"} :
         /\ tr_db' = IF fault = "none" THEN tr_write_checkpoint(tr_db, si_task[p].count)
                      ELSE tr_db
         /\ si_task' = [si_task EXCEPT ![p].pc = "Idle", ![p].fault = fault,
                            ![p].status = IF fault = "none" THEN "ok" ELSE "internal"]
    /\ tr_lock' = 0
    /\ UNCHANGED <<lc_main, lc_updates, overflow_checks, rpc_log, calls, lc_lock, st_task>>

\* sync_transformer is dispatched as task p: DB::open_default(..).unwrap() on
\* both stores, then read_checkpoint.
StOpen(p) ==
    /\ calls < MaxCalls
    /\ NextToDispatch(st_task, IdleSt, p)
    /\ calls' = calls + 1
    /\ IF lc_lock # 0
       THEN /\ st_task' = [st_task EXCEPT ![p].status = "panic"]
            /\ UNCHANGED lc_lock
       ELSE /\ st_task' = [st_task EXCEPT ![p].pc = "Draining", ![p].opened = TRUE,
                                          ![p].offset = read_checkpoint(lc_main)]
            /\ lc_lock' = p
    /\ UNCHANGED <<tr_db, lc_main, lc_updates, overflow_checks, rpc_log, tr_lock, si_task>>

\* stream.message() gives task p the next Term, which is buffered.
StRecv(p) ==
    /\ st_task[p].pc = "Draining"
    /\ Len(st_task[p].terms) < MaxTerms
    /\ \E t \in TaskTerms : st_task' = [st_task EXCEPT ![p].terms = Append(@, t)]
    /\ UNCHANGED <<tr_db, lc_main, lc_updates, overflow_checks, rpc_log, calls, tr_lock,
                   lc_lock, si_task>>

\* stream.message() tells task p that the stream is over, or fails (`?`).
StEnd(p) ==
    /\ st_task[p].pc = "Draining"
    /\ \E end \in StreamEnds :
         IF end = "eos"
         THEN /\ st_task' = [st_task EXCEPT ![p].pc = "Applying", ![p].end = end]
              /\ UNCHANGED lc_lock
         ELSE /\ st_task' = [st_task EXCEPT ![p].pc = "Idle", ![p].end = end,
                                            ![p].status = "err"]
              /\ lc_lock' = 0
    /\ UNCHANGED <<tr_db, lc_main, lc_updates, overflow_checks, rpc_log, calls, tr_lock,
                   si_task>>

\* Task p has run the loop body on its next Term; r is what it leaves.
StApplyReply(p, r) ==
    /\ lc_main' = r.main
    /\ lc_updates' = r.updates
    /\ IF r.panic
       THEN /\ st_task' = [st_task EXCEPT ![p].pc = "Idle", ![p].status = "panic"]
            /\ lc_lock' = 0
       ELSE /\ st_task' = [st_task EXCEPT ![p].offset = r.offset, ![p].next = @ + 1]
            /\ UNCHANGED lc_lock

\* One round of `for term in terms` in task p.
StApply(p) ==
    /\ st_task[p].pc = "Applying"
    /\ st_task[p].next <= Len(st_task[p].terms)
    /\ StApplyReply(p,
           process_terms([panic |-> FALSE, main |-> lc_main, updates |-> lc_updates,
                          offset |-> st_task[p].offset, log |-> << >>],
                         << st_task[p].terms[st_task[p].next] >>, 1))
    /\ UNCHANGED <<tr_db, overflow_checks, rpc_log, calls, tr_lock, si_task>>

\* Task p calls write_checkpoint and returns.
StCommit(p) ==
    /\ st_task[p].pc = "Applying"
    /\ st_task[p].next > Len(st_task[p].terms)
    /\ lc_main' = write_checkpoint(lc_main, st_task[p].offset)
    /\ st_task' = [st_task EXCEPT ![p].pc = "Idle", ![p].status = "ok"]
    /\ lc_lock' = 0
    /\ UNCHANGED <<tr_db, lc_updates, overflow_checks, rpc_log, calls, tr_lock, si_task>>

NextTasks ==
    \E p \in Tasks :
        \/ SiOpen(p) \/ SiRecv(p) \/ SiEnd(p) \/ SiWriteTerms(p) \/ SiWriteCheckpoint(p)
        \/ StOpen(p) \/ StRecv(p) \/ StEnd(p) \/ StApply(p) \/ StCommit(p)

SpecTasks == Init /\ [][NextTasks]_vars

NextLc == SyncTransformer \/ SyncCoreComputer

NextFollow == SyncFollowLog \/ TermStream

SpecFollow == Init /\ [][NextFollow]_vars

NextTr == SyncIndexer \/ TermStream

Next == SyncIndexer \/ TermStream \/ SyncTransformer \/ SyncCoreComputer

SpecLc == Init /\ [][NextLc]_vars

SpecTr == Init /\ [][NextTr]_vars

Spec == Init /\ [][Next]_vars

---------------------------------------------------------------------------
(* Properties of the transformer.  tr_last holds the request of the last    *)
(* transformer call, the stores before it (pre_db, pre_main, pre_updates)   *)
(* and the response.                                                        *)

\* parse_event returns Err for the event: the payload is no JSON of the
\* schema, or its signature recovers no key.
ParseFails(e) == ~e.schema_value.json_ok \/ ~e.schema_value.sig_recovers

\* parse_event returns a Term for the event.
ParsesToTerm(e) ==
    e.schema_value.json_ok /\ e.schema_value.sig_recovers /\ e.schema_value.sig_verifies

\* The u32 that is k above v.
Plus(v, k) == u32_sum(v, U32(k)).value

\* Every id of [start, start + size) has a stored Term in db.
FullyStored(db, start, size) ==
    \A k \in 0..(ToNat(size) - 1) : DbHas(db, to_be_bytes(Plus(start, k)))

\* C1: the counter the event ids are checked against starts at the persisted
\* checkpoint: a stream with an event whose id is not checkpoint + position
\* makes the call fail and leaves the store as it was.
C1_IdsCheckedFromCheckpoint ==
    (/\ tr_last.op = "sync_indexer"
     /\ \E i \in 1..Len(tr_last.events) :
           tr_last.events[i].id # Plus(tr_read_checkpoint(tr_last.pre_db), i - 1))
        => (tr_last.status # "ok" /\ tr_db = tr_last.pre_db)

C3_CheckpointNeverDecreases ==
    /\ tr_last.op = "sync_indexer"
          => u32_le(tr_read_checkpoint(tr_last.pre_db), tr_read_checkpoint(tr_db))
    /\ lc_last.status # "none"
          => u32_le(read_checkpoint(lc_last.pre_main), read_checkpoint(lc_main))

\* C4: term_stream with size > 1000 answers invalid-argument without opening
\* or reading the store and without calling the combiner; the transformer
\* store and the combiner's stores are as before the call.
C4_OversizeBatchRejected ==
    (tr_last.op = "term_stream" /\ u32_lt(U32(MAX_TERM_BATCH_SIZE), tr_last.size))
        => /\ tr_last.status = "invalid_argument"
           /\ ~tr_last.opened
           /\ tr_last.read_status = "none"
           /\ ~tr_last.called
           /\ tr_db = tr_last.pre_db
           /\ lc_main = tr_last.pre_main
           /\ lc_updates = tr_last.pre_updates

\* C4 witness: a term_stream call of size 1001 on a store that holds Terms.
C4_Witness ==
    /\ tr_last.op = "term_stream"
    /\ tr_last.size = U32(MAX_TERM_BATCH_SIZE + 1)
    /\ tr_last.status = "invalid_argument"
    /\ DbHas(tr_db, to_be_bytes(U32(0)))

\* C5: when every id of [start, start + size) has a stored Term, term_stream
\* reads exactly the Terms stored under start, ..., start + size - 1, in
\* ascending id order.
C5_ReadsTheWholeRange ==
    (/\ tr_last.op = "term_stream"
     /\ tr_last.fault = "none"
     /\ u32_le(tr_last.size, U32(MAX_TERM_BATCH_SIZE))
     /\ FullyStored(tr_last.pre_db, tr_last.start, tr_last.size))
        => /\ tr_last.read_status = "ok"
           /\ tr_last.read =
                 [k \in 1..ToNat(tr_last.size) |->
                     term_object(term_from_bytes(
                         tr_last.pre_db[to_be_bytes(Plus(tr_last.start, k - 1))]))]

\* C6: when some id of [start, start + size) has no stored Term, term_stream
\* fails with not-found and does not call the combiner.
C6_GapIsNotFound ==
    (/\ tr_last.op = "term_stream"
     /\ tr_last.fault = "none"
     /\ u32_le(tr_last.size, U32(MAX_TERM_BATCH_SIZE))
     /\ ~FullyStored(tr_last.pre_db, tr_last.start, tr_last.size))
        => /\ tr_last.read_status = "NotFoundError"
           /\ tr_last.status = "internal"
           /\ ~tr_last.called

\* The event's payload parses and its signature recovers a key, but
\* verify_ecdsa reports the signature invalid.
InvalidSignature(e) ==
    e.schema_value.json_ok /\ e.schema_value.sig_recovers /\ ~e.schema_value.sig_verifies

\* C12: an attestation whose signature check reports invalid makes into_term
\* return Err (no Term, no panic), and a sync_indexer stream holding one fails
\* with the error status and leaves the store as it was.
C12_InvalidSignatureIsError ==
    (tr_last.op = "sync_indexer"
        /\ \E i \in 1..Len(tr_last.events) : InvalidSignature(tr_last.events[i]))
        => /\ \A i \in 1..Len(tr_last.events) :
                 InvalidSignature(tr_last.events[i])
                     => into_term(tr_last.events[i].schema_value).status = "err"
           /\ tr_last.status = "internal"
           /\ tr_db = tr_last.pre_db

\* C13: a validly signed Follow attestation gives the Term from = address of
\* the recovered key, to = the did's key, weight 50, domain 1, positive =
\* is_trustworthy.
C13_FollowTermFields ==
    tr_last.op = "sync_indexer" =>
        \A i \in 1..Len(tr_last.events) :
            LET att == tr_last.events[i].schema_value IN
            ParsesToTerm(tr_last.events[i]) =>
                /\ into_term(att).status = "ok"
                /\ into_term(att).term =
                      [from |-> address_from_ecdsa_key(att.signer),
                       to |-> hex_encode(att.did_key),
                       weight |-> U32(50),
                       domain |-> U32(1),
                       positive |-> att.is_trustworthy]

\* sync_indexer run once more on the current store against the event log of
\* the last call, which the indexer serves again from its start.
SecondSync == sync_indexer(tr_db, tr_last.events, tr_last.end, "none")

\* C16: after a sync_indexer call that succeeded, a second run against the
\* same event log succeeds and leaves every stored Term and the checkpoint as
\* the first run left them.
C16_SecondSyncChangesNothing ==
    (tr_last.op = "sync_indexer" /\ tr_last.status = "ok")
        => (SecondSync.status = "ok" /\ SecondSync.db = tr_db)

\* C16 witness: a first run that stored two Terms and moved the checkpoint,
\* and whose second run succeeds.
C16_Witness ==
    /\ tr_last.op = "sync_indexer"
    /\ tr_last.status = "ok"
    /\ Len(tr_last.events) = 2
    /\ tr_read_checkpoint(tr_db) = U32(2)
    /\ tr_db # tr_last.pre_db
    /\ SecondSync.status = "ok"

\* C18: a response stream that ends with a transport error makes sync_indexer
\* fail and leaves the store (Terms and checkpoint) as it was.
C18_TruncatedStreamCommitsNothing ==
    (tr_last.op = "sync_indexer" /\ tr_last.end = "error")
        => (tr_last.status # "ok" /\ tr_db = tr_last.pre_db)

\* The ids whose Terms the last term_stream call read and forwarded: the
\* loop of read_terms runs over start .. size - 1.
IdsForwarded ==
    IF tr_last.op = "term_stream" /\ tr_last.called
    THEN {U32(i) : i \in {j \in 0..MAX_TERM_BATCH_SIZE :
                              /\ u32_le(tr_last.start, U32(j))
                              /\ u32_lt(U32(j), tr_last.size)}}
    ELSE {}

\* C21: every Term term_stream reads and forwards has an id below the
\* checkpoint persisted in the store it read, whatever sync_indexer calls
\* (completed, or failed at the checkpoint write after the batch write) came
\* before it.
C21_ForwardsCommittedTermsOnly ==
    \A id \in IdsForwarded : u32_lt(id, tr_read_checkpoint(tr_last.pre_db))

\* Every id below the persisted checkpoint of db has a stored Term.
StoredBelowCheckpoint(db) ==
    \A i \in 0..(ToNat(tr_read_checkpoint(db)) - 1) : DbHas(db, to_be_bytes(U32(i)))

\* The batch of the last term_stream call ends at or below the checkpoint of
\* the store it read: start + size <= checkpoint.
BatchBelowCheckpoint ==
    /\ tr_last.op = "term_stream"
    /\ ~u32_sum(tr_last.start, tr_last.size).overflow
    /\ u32_le(u32_sum(tr_last.start, tr_last.size).value,
              tr_read_checkpoint(tr_last.pre_db))

\* C23: after any sequence of sync_indexer calls, completed or failed at any
\* of their storage calls, every id below the checkpoint has a stored Term,
\* and a term_stream whose batch ends at or below the checkpoint does not
\* fail with not-found.
C23_NoGapBelowCheckpoint ==
    /\ StoredBelowCheckpoint(tr_db)
    /\ BatchBelowCheckpoint => tr_last.read_status # "NotFoundError"

\* C23 witness: a sync_indexer call has stored two Terms and set the
\* checkpoint to 2, and term_stream(0, 2) reads both from that store.
C23_Witness ==
    /\ BatchBelowCheckpoint
    /\ tr_read_checkpoint(tr_last.pre_db) = U32(2)
    /\ tr_last.start = U32(0)
    /\ tr_last.size = U32(2)
    /\ tr_last.read_status = "ok"
    /\ Len(tr_last.read) = 2

---------------------------------------------------------------------------
(* Views of the combiner's main store used by the properties.              *)

\* Keys of the index table: the main store also holds the checkpoint and the
\* 8-byte composite keys of the aggregate matrix.
AddressKeys(db) == {k \in DOMAIN db : k # CheckpointKey /\ Len(k) # 8}

\* The aggregate matrix: the main store restricted to composite keys.
Matrix(db) == [k \in {x \in DOMAIN db : Len(x) = 8} |-> db[k]]

\* The triplets {x, y, value} of the aggregate matrix held by db.
Triplets(db) ==
    {[x |-> from_be_bytes(SubSeq(k, 1, 4)), y |-> from_be_bytes(SubSeq(k, 5, 8)),
      value |-> from_be_bytes(db[k])] : k \in DOMAIN Matrix(db)}

IndexInjective(db) ==
    \A k1, k2 \in AddressKeys(db) : k1 # k2 => db[k1] # db[k2]

\* Every assigned index is below the persisted checkpoint.
IndicesBelowCheckpoint(db) ==
    \A k \in AddressKeys(db) : u32_lt(from_be_bytes(db[k]), read_checkpoint(db))

\* The accumulated weight of the edge from address a to address b (hex
\* strings with an index in db), read at the composite key db builds for it.
PairValue(db, a, b) ==
    get_value(db, db[hex_decode(a).bytes] \o db[hex_decode(b).bytes])

ArrivalOrders(seq) ==
    {[i \in 1..Len(seq) |-> seq[p[i]]] :
        p \in {q \in [1..Len(seq) -> 1..Len(seq)] :
                  \A i, j \in 1..Len(seq) : i # j => q[i] # q[j]}}

LcCalled == lc_last.status # "none"

\* The combiner call of the current state, replayed on another arrival order.
Replay(terms) ==
    sync_transformer(lc_last.pre_main, lc_last.pre_updates, terms, lc_last.end)

AllIndexedBefore ==
    \A i \in 1..Len(lc_last.terms) : \A s \in {lc_last.terms[i].from, lc_last.terms[i].to} :
        hex_decode(s).ok /\ DbHas(lc_last.pre_main, hex_decode(s).bytes)

---------------------------------------------------------------------------
(* Properties of the combiner.                                             *)

\* C7: get_index on an address already in the index table returns the index
\* stored for it, leaves the main store unchanged and does not advance the
\* offset; the index is still the stored one after the call.  This covers the
\* second lookup of an edge whose from and to are the same address.
C7_GetIndexIdempotent ==
    \A i \in 1..Len(lc_last.log) :
        LET e == lc_last.log[i] IN
        e.prev # << >> =>
            /\ e.hit
            /\ e.x = e.prev
            /\ ~e.db_changed
            /\ e.offset_after = e.offset_before
            /\ lc_main[hex_decode(e.source).bytes] = e.prev

\* C7 witness: a self-edge on a new address; the first lookup assigned the
\* index and the second lookup found it.
C7_Witness ==
    \E i \in 1..Len(lc_last.log) :
        /\ i % 2 = 0
        /\ lc_last.log[i].source = lc_last.log[i - 1].source
        /\ lc_last.log[i - 1].prev = << >>
        /\ lc_last.log[i].prev # << >>
        /\ lc_last.log[i].hit

\* C8: the index table is injective, and an address keeps the index it had
\* before the call.
C8_IndexTableInjectiveStable ==
    /\ IndexInjective(lc_main)
    /\ \A k \in AddressKeys(lc_last.pre_main) :
           DbHas(lc_main, k) /\ lc_main[k] = lc_last.pre_main[k]

C10_FailedCallLeavesStoresUnchanged ==
    lc_last.status \in {"err", "panic"} =>
        /\ lc_main = lc_last.pre_main
        /\ lc_updates = lc_last.pre_updates

---------------------------------------------------------------------------
(* The end-to-end scenario: A follows B in three events.                   *)

\* db holds under id k the Term of a Follow edge from A to B of weight 50.
HoldsFollowAB(db, k) ==
    /\ DbHas(db, to_be_bytes(U32(k)))
    /\ term_object(term_from_bytes(db[to_be_bytes(U32(k))]))
          = [from |-> AddrA, to |-> AddrB, weight |-> U32(50)]

\* The transformer store the scenario's sync_indexer has to leave.
AfterThreeFollows(db) ==
    /\ tr_read_checkpoint(db) = U32(3)
    /\ \A k \in 0..2 : HoldsFollowAB(db, k)
    /\ DOMAIN db = {CheckpointKey} \cup {to_be_bytes(U32(k)) : k \in 0..2}

\* The last call is the scenario's sync_indexer on fresh stores.
ThreeFollowsSynced ==
    /\ tr_last.op = "sync_indexer"
    /\ tr_last.pre_db = FreshStore
    /\ tr_last.events = [k \in 1..3 |-> [id |-> U32(k - 1), schema_value |-> FollowAB]]
    /\ tr_last.end = "eos"
    /\ tr_last.fault = "none"

\* The last call is the scenario's term_stream(0, 3) on a fresh combiner.
ThreeFollowsStreamed ==
    /\ tr_last.op = "term_stream"
    /\ tr_last.start = U32(0)
    /\ tr_last.size = U32(3)
    /\ tr_last.fault = "none"
    /\ AfterThreeFollows(tr_last.pre_db)
    /\ tr_last.pre_main = FreshStore
    /\ tr_last.pre_updates = EmptyDb

\* C14: from empty stores, sync_indexer over the events 0, 1, 2 (A follows B)
\* leaves checkpoint 3 and the three Terms under ids 0, 1, 2; term_stream(0, 3)
\* then leaves the combiner with index(A) = 0, index(B) = 1, value 150 at the
\* composite key (0, 1) and checkpoint 2.
C14_FollowEndToEnd ==
    /\ ThreeFollowsSynced => (tr_last.status = "ok" /\ AfterThreeFollows(tr_db))
    /\ ThreeFollowsStreamed =>
          /\ tr_last.status = "ok"
          /\ tr_last.called
          /\ AddressKeys(lc_main) = {KeyA, KeyB}
          /\ lc_main[KeyA] = to_be_bytes(U32(0))
          /\ lc_main[KeyB] = to_be_bytes(U32(1))
          /\ Triplets(lc_main) = {[x |-> U32(0), y |-> U32(1), value |-> U32(150)]}
          /\ read_checkpoint(lc_main) = U32(2)
          /\ tr_db = tr_last.pre_db

\* C14 witness: the scenario's term_stream answered and the combiner holds the
\* value 150.
C14_Witness ==
    /\ ThreeFollowsStreamed
    /\ tr_last.status = "ok"
    /\ get_value(lc_main, to_be_bytes(U32(0)) \o to_be_bytes(U32(1))) = U32(150)

---------------------------------------------------------------------------
(* Accumulation in the aggregate matrix and the delta table.               *)

\* The composite key index(from) ‖ index(to) of Term t under the index table
\* of db.
TermKey(db, t) == db[hex_decode(t.from).bytes] \o db[hex_decode(t.to).bytes]

\* v plus the weights of the Terms of `terms` from the i-th on whose composite
\* key is k, added one by one in u32; overflow tells whether the unbounded sum
\* has left the u32 range.
RECURSIVE Accumulate(_, _, _, _, _)
Accumulate(db, terms, i, k, acc) ==
    IF i > Len(terms) THEN acc
    ELSE IF TermKey(db, terms[i]) # k THEN Accumulate(db, terms, i + 1, k, acc)
    ELSE Accumulate(db, terms, i + 1, k,
             [overflow |-> acc.overflow \/ u32_sum(acc.value, terms[i].weight).overflow,
              value |-> u32_sum(acc.value, terms[i].weight).value])

\* What the matrix has to hold at key k after the last call.
Accumulated(k) ==
    Accumulate(lc_main, lc_last.terms, 1, k,
               [overflow |-> FALSE, value |-> get_value(lc_last.pre_main, k)])

\* The composite keys of the Terms of the last call.
KeysOfLastCall == {TermKey(lc_main, lc_last.terms[i]) : i \in 1..Len(lc_last.terms)}

\* C19: after a sync_transformer call that completed, the matrix value at
\* every composite key is its previous value plus the weights of the call's
\* Terms of that key (the exact sum while it fits u32, which it always does
\* under overflow checks), and the delta table holds the same total under
\* the key of every Term.  After any call every delta entry equals the matrix
\* entry of its key, and no delta entry has disappeared.
C19_AccumulatedAndMirrored ==
    /\ \A k \in DOMAIN lc_updates : DbHas(lc_main, k) /\ lc_updates[k] = lc_main[k]
    /\ LcCalled => \A k \in DOMAIN lc_last.pre_updates : DbHas(lc_updates, k)
    /\ lc_last.status = "ok" =>
          /\ \A k \in (DOMAIN Matrix(lc_main)) \cup KeysOfLastCall :
                 /\ get_value(lc_main, k) = Accumulated(k).value
                 /\ overflow_checks => ~Accumulated(k).overflow
          /\ \A k \in KeysOfLastCall :
                 /\ DbHas(lc_updates, k)
                 /\ lc_updates[k] = to_be_bytes(Accumulated(k).value)

\* C19 witness: two edges of weight 50 on a pair whose matrix value was 50
\* before the call; matrix and delta table hold 150.
C19_Witness ==
    /\ lc_last.status = "ok"
    /\ Len(lc_last.terms) = 2
    /\ lc_last.terms[1] = lc_last.terms[2]
    /\ lc_last.terms[1].weight = U32(50)
    /\ get_value(lc_last.pre_main, TermKey(lc_main, lc_last.terms[1])) = U32(50)
    /\ get_value(lc_main, TermKey(lc_main, lc_last.terms[1])) = U32(150)
    /\ lc_updates[TermKey(lc_main, lc_last.terms[1])] = to_be_bytes(U32(150))

---------------------------------------------------------------------------
(* Properties of the tasks.                                                *)

\* The phase changes a sync_indexer invocation can make in one step: the
\* order Idle, Streaming, Committing, Idle, left early only for Idle when
\* the invocation fails.
PhaseSteps ==
    {<< "Idle", "Idle" >>, << "Idle", "Streaming" >>, << "Streaming", "Streaming" >>,
     << "Streaming", "Committing" >>, << "Streaming", "Idle" >>,
     << "Committing", "Committing" >>, << "Committing", "Idle" >>}

\* db holds every Term of the buffer under its id.
BatchWritten(db, terms) ==
    \A i \in 1..Len(terms) :
        /\ DbHas(db, to_be_bytes(terms[i][1]))
        /\ db[to_be_bytes(terms[i][1])] = term_into_bytes(terms[i][2])

\* The step is the one in which task p returns with `status`.
Returns(p, status) == si_task[p].status = "none" /\ si_task'[p].status = status

\* C17: every sync_indexer invocation goes Idle, Streaming, Committing, Idle
\* in that order; the store is not written while an invocation is Streaming;
\* the checkpoint is written only by an invocation that is Committing and
\* whose Term batch is in the store; a batch write that fails ends the
\* invocation with the store, checkpoint included, as it was; an invocation
\* that succeeds was Committing with its batch written and leaves the
\* checkpoint at its counter, the number of events it consumed.
C17_SyncIndexerPhases ==
    [][\A p \in Tasks :
          /\ << si_task[p].pc, si_task'[p].pc >> \in PhaseSteps
          /\ si_task[p].pc = "Streaming" => tr_db' = tr_db
          /\ tr_db' # tr_db => \E q \in Tasks : si_task[q].pc = "Committing"
          /\ (tr_db'[CheckpointKey] # tr_db[CheckpointKey] \/ Returns(p, "ok"))
                => \E q \in Tasks :
                      /\ si_task[q].pc = "Committing"
                      /\ si_task[q].written
                      /\ BatchWritten(tr_db, si_task[q].terms)
          /\ (Returns(p, "internal") /\ si_task[p].pc = "Committing"
                  /\ ~si_task[p].written)
                => tr_db' = tr_db
          /\ Returns(p, "ok")
                => /\ tr_read_checkpoint(tr_db') = si_task[p].count
                   /\ si_task[p].count = U32(Len(si_task[p].received))
      ]_vars

\* C17 witness: an invocation that consumed two events has returned Ok and
\* the checkpoint is 2.
C17_Witness ==
    \E p \in Tasks :
        /\ si_task[p].status = "ok"
        /\ si_task[p].pc = "Idle"
        /\ Len(si_task[p].received) = 2
        /\ si_task[p].written
        /\ tr_read_checkpoint(tr_db) = U32(2)

\* All orders in which the tasks of S can run one after the other.
Orders(S) ==
    {q \in [1..Cardinality(S) -> S] :
        \A i, j \in 1..Cardinality(S) : i # j => q[i] # q[j]}

\* The combiner stores after the sync_transformer calls of the tasks of
\* `order`, run one after the other.
RECURSIVE RunSt(_, _, _)
RunSt(main_db, updates_db, order) ==
    IF order = << >> THEN << main_db, updates_db >>
    ELSE RunSt(sync_transformer(main_db, updates_db, st_task[Head(order)].terms,
                                st_task[Head(order)].end).main,
               sync_transformer(main_db, updates_db, st_task[Head(order)].terms,
                                st_task[Head(order)].end).updates,
               Tail(order))

\* The transformer store after the sync_indexer calls of the tasks of `order`,
\* run one after the other.
RECURSIVE RunSi(_, _)
RunSi(db, order) ==
    IF order = << >> THEN db
    ELSE RunSi(sync_indexer(db, si_task[Head(order)].received, si_task[Head(order)].end,
                            si_task[Head(order)].fault).db,
               Tail(order))

\* No task is between its dispatch and its return.
Quiescent ==
    \A p \in Tasks : si_task[p].pc = "Idle" /\ st_task[p].pc = "Idle"

\* At most one task of a service is between the opening of the store and its
\* return, and it is the one that has the store open.
OneWriterAtATime ==
    /\ \A p \in Tasks : si_task[p].pc # "Idle" <=> tr_lock = p
    /\ \A p \in Tasks : st_task[p].pc # "Idle" <=> lc_lock = p

\* The tasks leave the stores as the handlers taken as one step do, run one
\* after the other in some order, for the tasks that got their store open.
TasksRunAsCalls ==
    Quiescent =>
        /\ \E o \in Orders({p \in Tasks : st_task[p].opened}) :
               RunSt(FreshStore, EmptyDb, o) = << lc_main, lc_updates >>
        /\ \E o \in Orders({p \in Tasks : si_task[p].opened}) :
               RunSi(FreshStore, o) = tr_db

\* C20: writers are serialized.  At most one task of a service works on the
\* store at a time, and once all dispatched calls have returned, the stores
\* are those that the calls that succeeded leave when they run one after the
\* other in some order.
C20_WritersSerialized ==
    /\ OneWriterAtATime
    /\ Quiescent =>
          /\ \E o \in Orders({p \in Tasks : st_task[p].status = "ok"}) :
                 RunSt(FreshStore, EmptyDb, o) = << lc_main, lc_updates >>
          /\ \E o \in Orders({p \in Tasks : si_task[p].status = "ok"}) :
                 RunSi(FreshStore, o) = tr_db

---------------------------------------------------------------------------
(* The index table across completed calls.                                 *)

\* The index table of db is dense: as many addresses as the checkpoint
\* counts, and their indices are exactly 0 .. checkpoint - 1.
DenseIndexTable(db) ==
    /\ Cardinality(AddressKeys(db)) = ToNat(read_checkpoint(db))
    /\ {from_be_bytes(db[k]) : k \in AddressKeys(db)}
           = {U32(i) : i \in 0..(ToNat(read_checkpoint(db)) - 1)}

\* The addresses of a batch in the order sync_transformer looks them up:
\* from before to within a Term, Terms in arrival order.
Encounter(terms) ==
    [i \in 1..(2 * Len(terms)) |->
        IF i % 2 = 1 THEN terms[(i + 1) \div 2].from ELSE terms[i \div 2].to]

\* The i-th lookup is the first sight of its address: db has no index for it
\* and no earlier lookup of the batch was for the same key.
FirstSight(db, enc, i) ==
    /\ ~DbHas(db, hex_decode(enc[i]).bytes)
    /\ \A j \in 1..(i - 1) : hex_decode(enc[j]).bytes # hex_decode(enc[i]).bytes

\* The number of first sights among the first i lookups.
FirstSights(db, enc, i) == Cardinality({j \in 1..i : FirstSight(db, enc, j)})

\* The last call gave the addresses it saw first the indices from the
\* checkpoint on, in encounter order, and left the older ones alone.
AssignedInEncounterOrder ==
    LET pre == lc_last.pre_main
        enc == Encounter(lc_last.terms)
    IN /\ \A i \in 1..Len(enc) :
              FirstSight(pre, enc, i) =>
                  lc_main[hex_decode(enc[i]).bytes]
                      = to_be_bytes(Plus(read_checkpoint(pre),
                                         FirstSights(pre, enc, i) - 1))
       /\ \A k \in AddressKeys(pre) : DbHas(lc_main, k) /\ lc_main[k] = pre[k]
       /\ read_checkpoint(lc_main)
              = Plus(read_checkpoint(pre), FirstSights(pre, enc, Len(enc)))

\* C22: the fresh store has a dense index table with checkpoint 0, and a
\* completed sync_transformer call on a store with a dense index table leaves
\* a dense one: the checkpoint is the number of addresses and the next free
\* index, the indices are exactly 0 .. checkpoint - 1, and the call's new
\* addresses got theirs in encounter order.  By induction this holds after
\* every sequence of completed calls from the fresh store.
C22_CheckpointIsNextFreeIndex ==
    /\ lc_last.status = "none" => DenseIndexTable(lc_main)
    /\ (lc_last.status = "ok" /\ DenseIndexTable(lc_last.pre_main))
           => (DenseIndexTable(lc_main) /\ AssignedInEncounterOrder)

\* C22 witness: a completed call on a store that holds one address already;
\* the batch looks that address up again and sees two lookups of a new one,
\* which gets index 1 and moves the checkpoint to 2.
C22_Witness ==
    /\ lc_last.status = "ok"
    /\ DenseIndexTable(lc_last.pre_main)
    /\ read_checkpoint(lc_last.pre_main) = U32(1)
    /\ read_checkpoint(lc_main) = U32(2)
    /\ Len(lc_last.terms) = 2
    /\ \E i \in 1..4 : DbHas(lc_last.pre_main,
                             hex_decode(Encounter(lc_last.terms)[i]).bytes)
    /\ Cardinality({i \in 1..4 :
                       ~DbHas(lc_last.pre_main,
                              hex_decode(Encounter(lc_last.terms)[i]).bytes)}) >= 2

---------------------------------------------------------------------------
(* Properties of the checkpoint functions.                                 *)

\* The store of the service the last checkpoint operation was made on.
CpStore == IF cp_last.svc = "transformer" THEN tr_db ELSE lc_main

\* read_checkpoint of the service the last checkpoint operation was made on.
CpRead(db) ==
    IF cp_last.svc = "transformer" THEN tr_read_checkpoint(db) ELSE read_checkpoint(db)

\* C15: in both services read_checkpoint after write_checkpoint(N) returns N
\* and the write touches no other key; read_checkpoint on a store without a
\* checkpoint returns 0; constructing the service sets a missing checkpoint to
\* 0 and leaves an existing one as it is.
C15_CheckpointRoundTrip ==
    /\ cp_last.op = "write" =>
          /\ CpRead(CpStore) = cp_last.n
          /\ \A k \in (DOMAIN CpStore) \ {CheckpointKey} :
                 DbHas(cp_last.pre, k) /\ CpStore[k] = cp_last.pre[k]
    /\ ~DbHas(tr_db, CheckpointKey) => tr_read_checkpoint(tr_db) = U32(0)
    /\ ~DbHas(lc_main, CheckpointKey) => read_checkpoint(lc_main) = U32(0)
    /\ cp_last.op = "new" =>
          /\ DbHas(CpStore, CheckpointKey)
          /\ DbHas(cp_last.pre, CheckpointKey) => CpStore = cp_last.pre
          /\ ~DbHas(cp_last.pre, CheckpointKey) => CpRead(CpStore) = U32(0)

\* C15 witness: a service is constructed on a store whose checkpoint was
\* written as 2^32 - 1, and the checkpoint still reads 2^32 - 1.
C15_Witness ==
    /\ cp_last.op = "new"
    /\ DbHas(cp_last.pre, CheckpointKey)
    /\ CpRead(CpStore) = MaxU32

---------------------------------------------------------------------------
(* Properties of sync_core_computer.                                       *)

\* C11: the stream sync_core_computer returns holds the triplets of the
\* aggregate matrix of the call's time, all of them and nothing else.
C11_CoreStreamIsTheMatrix ==
    core_last.called =>
        {core_last.stream[i] : i \in 1..Len(core_last.stream)} = Triplets(core_last.main)

=============================================================================
